---- MODULE Spec2Model ----
(***************************************************************************)
(* A model of the 2048 rules engine (src/src/lib/gameLogic.ts), of the     *)
(* storage hook (useGameStorage) and of the game loop of the App           *)
(* component.  Tiles are records; a tile list is a sequence of tiles in    *)
(* array order.  A JavaScript Map is modelled by its keys in insertion     *)
(* order together with the object each key refers to.                      *)
(***************************************************************************)
EXTENDS Integers, Sequences, FiniteSets, TLC

VARIABLES
  tiles,        \* gameState.tiles (in the function-level specifications: the board under test)
  grid,         \* gameState.grid
  score,        \* gameState.score
  bestScore,    \* gameState.bestScore
  isGameOver,   \* gameState.isGameOver
  nextTileId,   \* the module-level id counter of gameLogic.ts
  storage,      \* localStorage: the stored game record (or absent) and the stored best score
  call,         \* the last operation performed, with its input and its result
  budget        \* how many accepted moves, resets and page loads have happened

vars == <<tiles, grid, score, bestScore, isGameOver, nextTileId, storage, call, budget>>

(***************************************************************************)
(* Time.  Date.now() is read twice per page load: when gameLogic.ts is     *)
(* evaluated (nextTileId) and when the stored grid is converted            *)
(* (gridToTiles).  No id outlives a page load, so ids are counted from     *)
(* the time at which the module of the current page load was evaluated:    *)
(* that reading is 0, and the second reading is the delay since then.      *)
(***************************************************************************)

(***************************************************************************)
(* Bounds of the model.                                                    *)
(***************************************************************************)
\* tile values of the boards under test are 2^1 .. 2^MaxExp
MaxExp == 2
\* accepted moves in one run of the game loop
MaxMoves == 2
\* resets in one run of the game loop
MaxResets == 1
\* page reloads in one run of the game loop
MaxReloads == 1
\* milliseconds between the evaluation of the module and the load of the stored state
MaxDelay == 2
\* a delay that the id counter does not catch up with within the moves and resets of a run
LateDelay == 20

(***************************************************************************)
(* Program constants.                                                      *)
(***************************************************************************)
GRID_SIZE == 4

Cells == 0 .. (GRID_SIZE - 1)

Directions == {"left", "right", "up", "down"}

\* the result of addRandomTile when no cell is empty
Null == [null |-> TRUE]

(***************************************************************************)
(* Generic helpers.                                                        *)
(***************************************************************************)
RECURSIVE Pow2(_)
Pow2(n) == IF n = 0 THEN 1 ELSE 2 * Pow2(n - 1)

RECURSIVE SumValues(_)
SumValues(ts) == IF ts = <<>> THEN 0 ELSE Head(ts).value + SumValues(Tail(ts))

Ids(ts) == {ts[i].id : i \in 1 .. Len(ts)}

Range(s) == {s[i] : i \in 1 .. Len(s)}

RECURSIVE Filter(_, _, _)
\* the elements of ts whose coordinate `axis` equals k, in list order
Filter(ts, axis, k) ==
  IF ts = <<>> THEN <<>>
  ELSE IF Head(ts)[axis] = k
       THEN <<Head(ts)>> \o Filter(Tail(ts), axis, k)
       ELSE Filter(Tail(ts), axis, k)

RECURSIVE InsertStable(_, _, _, _)
\* t inserted into the sorted list s behind every element that does not come after it
InsertStable(s, t, key, sign) ==
  IF s = <<>> THEN <<t>>
  ELSE IF sign * Head(s)[key] <= sign * t[key]
       THEN <<Head(s)>> \o InsertStable(Tail(s), t, key, sign)
       ELSE <<t>> \o s

RECURSIVE SortBy(_, _, _)
\* Array.prototype.sort with the comparator sign * (a[key] - b[key]); the sort is stable
SortBy(ts, key, sign) ==
  IF ts = <<>> THEN <<>>
  ELSE InsertStable(SortBy(SubSeq(ts, 1, Len(ts) - 1), key, sign), ts[Len(ts)], key, sign)

(***************************************************************************)
(* Board conversions.                                                      *)
(***************************************************************************)
createEmptyGrid(size) == [r \in 0 .. (size - 1) |-> [c \in 0 .. (size - 1) |-> 0]]

RECURSIVE PutTiles(_, _, _)
PutTiles(g, ts, size) ==
  IF ts = <<>> THEN g
  ELSE LET t == Head(ts)
           g1 == IF t.row >= 0 /\ t.row < size /\ t.col >= 0 /\ t.col < size
                 THEN [g EXCEPT ![t.row][t.col] = t.value]
                 ELSE g
       IN PutTiles(g1, Tail(ts), size)

tilesToGrid(ts, size) == PutTiles(createEmptyGrid(size), ts, size)

RECURSIVE GridCells_SameId(_, _, _)
\* the conversion without the increment of its id counter
GridCells_SameId(g, k, id) ==
  IF k = GRID_SIZE * GRID_SIZE THEN <<>>
  ELSE LET r == k \div GRID_SIZE
           c == k % GRID_SIZE
       IN IF g[r][c] # 0
          THEN <<[id |-> id, value |-> g[r][c], row |-> r, col |-> c, merged |-> FALSE]>>
               \o GridCells_SameId(g, k + 1, id)
          ELSE GridCells_SameId(g, k + 1, id)

RECURSIVE GridCells(_, _, _)
\* the nonzero cells of g from cell number k on, in row-major order, ids counting from id
GridCells(g, k, id) ==
  IF k = GRID_SIZE * GRID_SIZE THEN <<>>
  ELSE LET r == k \div GRID_SIZE
           c == k % GRID_SIZE
       IN IF g[r][c] # 0
          THEN <<[id |-> id, value |-> g[r][c], row |-> r, col |-> c, merged |-> FALSE]>>
               \o GridCells(g, k + 1, id + 1)
          ELSE GridCells(g, k + 1, id)

\* now: the value of Date.now() when the conversion starts
gridToTiles(g, now) == GridCells(g, 0, now)

(***************************************************************************)
(* The directional move engine.  The four move functions of the source     *)
(* share one text up to the axis, the sort order, the target index and     *)
(* the skipping of zero-valued tiles (moveUp and moveDown only).           *)
(***************************************************************************)
RECURSIVE MapOfTiles(_, _)
\* new Map(tiles.map(tile => [tile.id, { ...tile }])): a key keeps the place of its
\* first insertion and refers to the copy of the last tile inserted under it
MapOfTiles(m, ts) ==
  IF ts = <<>> THEN m
  ELSE LET t == Head(ts)
       IN IF t.id \in DOMAIN m.val
          THEN MapOfTiles([m EXCEPT !.val[t.id] = t], Tail(ts))
          ELSE MapOfTiles([keys |-> Append(m.keys, t.id), val |-> (t.id :> t) @@ m.val],
                          Tail(ts))

\* a delete that is left out
DeleteKey_Keep(keys, id) == keys

RECURSIVE DeleteKey(_, _)
\* tilesById.delete(id)
DeleteKey(keys, id) ==
  IF keys = <<>> THEN <<>>
  ELSE IF Head(keys) = id THEN Tail(keys) ELSE <<Head(keys)>> \o DeleteKey(Tail(keys), id)

\* the merge condition without its guard
MergeAllowed_NoGuard(last, cur, lastMergedTileId) == last.value = cur.value

\* the merge condition with a guard that allows one merge per line
MergeAllowed_OncePerLine(last, cur, lastMergedTileId) ==
  last.value = cur.value /\ lastMergedTileId = {}

\* the merge condition: equal values, and the last tile of the new line is not the
\* tile that the previous merge of this line produced
MergeAllowed(last, cur, lastMergedTileId) ==
  last.value = cur.value /\ last.id \notin lastMergedTileId

\* the target index counted from one cell past the far edge
TargetIndex_PastEdge(i, sign) == IF sign = 1 THEN i ELSE GRID_SIZE - i

\* the index along the line of the i-th tile (from 0) of the compacted line
TargetIndex(i, sign) == IF sign = 1 THEN i ELSE GRID_SIZE - 1 - i

\* the score of a merge replacing the score so far
AddScore_Overwrite(scoreIncrease, mergedValue) == mergedValue

\* scoreIncrease += mergedValue
AddScore(scoreIncrease, mergedValue) == scoreIncrease + mergedValue

RECURSIVE WalkLine(_, _, _)
\* the merge loop over the tiles of one line (ids of the working copies); w.newLine
\* holds the ids of the copies kept so far, w.lastMergedTileId is {} for null
WalkLine(w, line, skipZero) ==
  IF line = <<>> THEN w
  ELSE LET cur == w.val[Head(line)]
           rest == Tail(line)
       IN IF skipZero /\ cur.value = 0 THEN WalkLine(w, rest, skipZero)
          ELSE IF w.newLine # <<>>
                  /\ MergeAllowed(w.val[w.newLine[Len(w.newLine)]], cur, w.lastMergedTileId)
               THEN LET last == w.val[w.newLine[Len(w.newLine)]]
                        mergedValue == cur.value * 2
                    IN WalkLine([w EXCEPT !.scoreIncrease = AddScore(@, mergedValue),
                                          !.val[last.id].value = mergedValue,
                                          !.val[last.id].merged = TRUE,
                                          !.lastMergedTileId = {last.id},
                                          !.keys = DeleteKey(@, cur.id),
                                          !.moved = TRUE],
                                rest, skipZero)
               ELSE WalkLine([w EXCEPT !.newLine = Append(@, cur.id)], rest, skipZero)

RECURSIVE PlaceLine_NoFlag(_, _, _, _)
\* the placing loop without its moved = true
PlaceLine_NoFlag(w, i, posAxis, sign) ==
  IF i >= Len(w.newLine) THEN w
  ELSE PlaceLine_NoFlag([w EXCEPT !.val[w.newLine[i + 1]][posAxis] = TargetIndex(i, sign)],
                        i + 1, posAxis, sign)

RECURSIVE PlaceLine_AlwaysMoved(_, _, _, _)
\* the placing loop setting moved = true for every tile it visits
PlaceLine_AlwaysMoved(w, i, posAxis, sign) ==
  IF i >= Len(w.newLine) THEN w
  ELSE PlaceLine_AlwaysMoved([w EXCEPT !.val[w.newLine[i + 1]][posAxis] = TargetIndex(i, sign),
                                       !.moved = TRUE],
                             i + 1, posAxis, sign)

RECURSIVE PlaceLine_OtherAxis(_, _, _, _)
\* the placing loop writing the coordinate that names the line
PlaceLine_OtherAxis(w, i, posAxis, sign) ==
  IF i >= Len(w.newLine) THEN w
  ELSE LET id == w.newLine[i + 1]
           target == TargetIndex(i, sign)
           axis == IF posAxis = "col" THEN "row" ELSE "col"
       IN IF w.val[id][axis] # target
          THEN PlaceLine_OtherAxis([w EXCEPT !.val[id][axis] = target, !.moved = TRUE],
                                   i + 1, posAxis, sign)
          ELSE PlaceLine_OtherAxis(w, i + 1, posAxis, sign)

RECURSIVE PlaceLine(_, _, _, _)
\* the loop that re-assigns the coordinate along the line, from index i (from 0) on
PlaceLine(w, i, posAxis, sign) ==
  IF i >= Len(w.newLine) THEN w
  ELSE LET id == w.newLine[i + 1]
           target == TargetIndex(i, sign)
       IN IF w.val[id][posAxis] # target
          THEN PlaceLine([w EXCEPT !.val[id][posAxis] = target, !.moved = TRUE],
                         i + 1, posAxis, sign)
          ELSE PlaceLine(w, i + 1, posAxis, sign)

\* the tiles of one line in the opposite order
LineIds_Reversed(sorted) == [i \in 1 .. Len(sorted) |-> sorted[Len(sorted) + 1 - i].id]

\* the tiles of one line in the order of the walk, each as the id of its working copy
LineIds(sorted) == [i \in 1 .. Len(sorted) |-> sorted[i].id]

\* one line: a tile whose id is no longer a key of the map is read as undefined, and
\* the access to its fields throws; otherwise the merge loop, then the placing loop
MoveLine(w, line, posAxis, sign, skipZero) ==
  IF \E i \in 1 .. Len(line) : line[i] \notin Range(w.keys)
  THEN [w EXCEPT !.threw = TRUE]
  ELSE PlaceLine(WalkLine([w EXCEPT !.newLine = <<>>, !.lastMergedTileId = {}],
                          line, skipZero),
                 0, posAxis, sign)

RECURSIVE MoveLines(_, _, _, _, _, _, _)
\* the loop over the lines k .. GRID_SIZE-1
MoveLines(w, ts, k, lineAxis, posAxis, sign, skipZero) ==
  IF k = GRID_SIZE \/ w.threw THEN w
  ELSE MoveLines(MoveLine(w, LineIds(SortBy(Filter(ts, lineAxis, k), posAxis, sign)),
                          posAxis, sign, skipZero),
                 ts, k + 1, lineAxis, posAxis, sign, skipZero)

\* the working state of a move before the first line
WorkingCopies(m) ==
  [keys |-> m.keys, val |-> m.val, newLine |-> <<>>, lastMergedTileId |-> {},
   scoreIncrease |-> 0, moved |-> FALSE, threw |-> FALSE]

\* the MoveResult: Array.from(tilesById.values()), the score increase, the flag
ResultOf(w) ==
  [updatedTiles |-> IF w.threw THEN <<>> ELSE [i \in 1 .. Len(w.keys) |-> w.val[w.keys[i]]],
   scoreIncrease |-> w.scoreIncrease,
   moved |-> w.moved,
   threw |-> w.threw]

\* a move function: the working map, the loop over the lines, the result
MoveTiles(ts, lineAxis, posAxis, sign, skipZero) ==
  ResultOf(MoveLines(WorkingCopies(MapOfTiles([keys |-> <<>>, val |-> <<>>], ts)),
                     ts, 0, lineAxis, posAxis, sign, skipZero))

moveLeft(ts) == MoveTiles(ts, "row", "col", 1, FALSE)

\* moveRight with the sort order and the target column of moveLeft
moveRight_TowardsLeft(ts) == MoveTiles(ts, "row", "col", 1, FALSE)

moveRight(ts) == MoveTiles(ts, "row", "col", -1, FALSE)

moveUp(ts) == MoveTiles(ts, "col", "row", 1, TRUE)

moveDown(ts) == MoveTiles(ts, "col", "row", -1, TRUE)

\* the switch of memoizedHandleMove over the direction
MoveResult(ts, direction) ==
  CASE direction = "left" -> moveLeft(ts)
    [] direction = "right" -> moveRight(ts)
    [] direction = "up" -> moveUp(ts)
    [] direction = "down" -> moveDown(ts)

(***************************************************************************)
(* The grid-based row routine (slide, merge, slide).  A row is a function  *)
(* from the column indexes to the values, 0 for an empty cell.             *)
(***************************************************************************)
RECURSIVE FilteredRow(_, _)
\* row.filter(val => val !== 0), from column c on
FilteredRow(row, c) ==
  IF c >= GRID_SIZE THEN <<>>
  ELSE IF row[c] # 0 THEN <<row[c]>> \o FilteredRow(row, c + 1)
       ELSE FilteredRow(row, c + 1)

\* a row of GRID_SIZE zeros with the values of filteredRow written from index 0 on
FillRow(filteredRow) ==
  [c \in Cells |-> IF c < Len(filteredRow) THEN filteredRow[c + 1] ELSE 0]

slideRowLeft(row) == FillRow(FilteredRow(row, 0))

RECURSIVE MergeFrom(_, _)
\* the loop of mergeRowLeft from index i on
MergeFrom(m, i) ==
  IF i >= GRID_SIZE - 1 THEN m
  ELSE IF m.mergedRow[i] # 0 /\ m.mergedRow[i] = m.mergedRow[i + 1]
       THEN MergeFrom([mergedRow |-> [m.mergedRow EXCEPT ![i] = 2 * @, ![i + 1] = 0],
                       scoreIncrease |-> m.scoreIncrease + 2 * m.mergedRow[i]],
                      i + 1)
       ELSE MergeFrom(m, i + 1)

mergeRowLeft(row) == MergeFrom([mergedRow |-> row, scoreIncrease |-> 0], 0)

\* the final row given the result of the merge
SlideMerged(merged) ==
  [movedRow |-> slideRowLeft(merged.mergedRow), scoreIncrease |-> merged.scoreIncrease]

\* the row routine without its second slide
moveRowLeft_NoSecondSlide(row) ==
  [movedRow |-> mergeRowLeft(slideRowLeft(row)).mergedRow,
   scoreIncrease |-> mergeRowLeft(slideRowLeft(row)).scoreIncrease]

moveRowLeft(row) == SlideMerged(mergeRowLeft(slideRowLeft(row)))

(***************************************************************************)
(* The tile spawner.                                                       *)
(***************************************************************************)
RECURSIVE EmptyInRows(_, _, _)
\* the empty cells of g from cell number k up to (not including) cell number last
EmptyInRows(g, k, last) ==
  IF k >= last THEN <<>>
  ELSE LET r == k \div GRID_SIZE
           c == k % GRID_SIZE
       IN IF g[r][c] = 0
          THEN <<[row |-> r, col |-> c]>> \o EmptyInRows(g, k + 1, last)
          ELSE EmptyInRows(g, k + 1, last)

\* the candidate cells without the second scan
emptyCells_TopOnly(ts) == EmptyInRows(tilesToGrid(ts, GRID_SIZE), 0, GRID_SIZE)

\* the candidate cells without the preference for row 0
emptyCells_AllRows(ts) ==
  EmptyInRows(tilesToGrid(ts, GRID_SIZE), 0, GRID_SIZE * GRID_SIZE)

\* the candidate cells of addRandomTile: the empty cells of row 0 and, only when
\* there are none, the empty cells of the other rows
emptyCells(ts) ==
  LET g == tilesToGrid(ts, GRID_SIZE)
      top == EmptyInRows(g, 0, GRID_SIZE)
  IN IF Len(top) = 0 THEN EmptyInRows(g, GRID_SIZE, GRID_SIZE * GRID_SIZE) ELSE top

\* the values Math.floor(Math.random() * emptyCells.length) can take
RandomIndexes(ts) == 0 .. (Len(emptyCells(ts)) - 1)

\* the values Math.random() < 0.9 ? 2 : 4 can take
RandomValues == {2, 4}

\* addRandomTile with the two random draws and the id counter as parameters
addRandomTile(ts, id, randomIndex, value) ==
  LET cells == emptyCells(ts)
  IN IF Len(cells) = 0 THEN Null
     ELSE LET cell == cells[randomIndex + 1]
              newTile == [id |-> id, value |-> value, row |-> cell.row, col |-> cell.col,
                          merged |-> FALSE]
          IN [tilesWithNew |-> Append(ts, newTile), newTile |-> newTile]

(***************************************************************************)
(* The tile records and the tile list of the caller.  The functions work   *)
(* on what the spread syntax gives them ({ ...tile } for the entries of    *)
(* the Map, [...tiles, newTile] for the list of addRandomTile); the fields *)
(* they write are fields of the working objects.                           *)
(***************************************************************************)
\* the spread syntax handing over the object it was given
SpreadCopies_SameObject == FALSE

\* the spread syntax creates a new object (a new array)
SpreadCopies == TRUE

\* the working state of a move function after its loop over the lines
MoveWork(ts, lineAxis, posAxis, sign, skipZero) ==
  MoveLines(WorkingCopies(MapOfTiles([keys |-> <<>>, val |-> <<>>], ts)),
            ts, 0, lineAxis, posAxis, sign, skipZero)

DirectionWork(ts, direction) ==
  CASE direction = "left" -> MoveWork(ts, "row", "col", 1, FALSE)
    [] direction = "right" -> MoveWork(ts, "row", "col", -1, FALSE)
    [] direction = "up" -> MoveWork(ts, "col", "row", 1, TRUE)
    [] direction = "down" -> MoveWork(ts, "col", "row", -1, TRUE)

\* the tile records of the caller after a move function has run to the working
\* state w
RecordsAfter(ts, w) ==
  IF SpreadCopies THEN ts ELSE [i \in 1 .. Len(ts) |-> w.val[ts[i].id]]

\* the tile records of the caller after a move function
InputAfterMove(ts, direction) == RecordsAfter(ts, DirectionWork(ts, direction))

RECURSIVE InputAfterMoves(_, _)
\* the tile records of the caller after checkAvailableMoves has tried the
\* directions dirs, stopping at the first that reports moved
InputAfterMoves(ts, dirs) ==
  IF dirs = <<>> THEN ts
  ELSE IF MoveResult(ts, Head(dirs)).threw \/ MoveResult(ts, Head(dirs)).moved
       THEN InputAfterMove(ts, Head(dirs))
       ELSE InputAfterMoves(InputAfterMove(ts, Head(dirs)), Tail(dirs))

\* the tile records of the caller after checkAvailableMoves
InputAfterCheck(ts) ==
  IF Len(ts) < GRID_SIZE * GRID_SIZE THEN ts
  ELSE InputAfterMoves(ts, <<"left", "right", "up", "down">>)

\* the tile list of the caller after addRandomTile
InputAfterSpawn(ts, addResult) ==
  IF SpreadCopies \/ addResult = Null THEN ts ELSE addResult.tilesWithNew

(***************************************************************************)
(* The terminal-state detector and the initial board.                      *)
(***************************************************************************)
\* the detector trying the moves along the rows only
FirstEffective_RowsOnly(l, r, u, d) ==
  CASE l.threw -> [canMove |-> FALSE, threw |-> TRUE]
    [] l.moved -> [canMove |-> TRUE, threw |-> FALSE]
    [] r.threw -> [canMove |-> FALSE, threw |-> TRUE]
    [] r.moved -> [canMove |-> TRUE, threw |-> FALSE]
    [] OTHER -> [canMove |-> FALSE, threw |-> FALSE]

\* checkAvailableMoves: the four moves are tried in the order of the source, and a
\* move that throws ends the call
FirstEffective(l, r, u, d) ==
  CASE l.threw -> [canMove |-> FALSE, threw |-> TRUE]
    [] l.moved -> [canMove |-> TRUE, threw |-> FALSE]
    [] r.threw -> [canMove |-> FALSE, threw |-> TRUE]
    [] r.moved -> [canMove |-> TRUE, threw |-> FALSE]
    [] u.threw -> [canMove |-> FALSE, threw |-> TRUE]
    [] u.moved -> [canMove |-> TRUE, threw |-> FALSE]
    [] d.threw -> [canMove |-> FALSE, threw |-> TRUE]
    [] d.moved -> [canMove |-> TRUE, threw |-> FALSE]
    [] OTHER -> [canMove |-> FALSE, threw |-> FALSE]

checkAvailableMoves(ts) ==
  IF Len(ts) < GRID_SIZE * GRID_SIZE THEN [canMove |-> TRUE, threw |-> FALSE]
  ELSE FirstEffective(moveLeft(ts), moveRight(ts), moveUp(ts), moveDown(ts))

\* initializeGame adding its second tile to the empty list instead of the list that
\* holds the first tile
initializeGame_SecondOnEmpty(id, randomIndex1, value1, randomIndex2, value2) ==
  LET tile1Result == addRandomTile(<<>>, id, randomIndex1, value1)
      tile2Result == addRandomTile(<<>>, id + 1, randomIndex2, value2)
  IN [grid |-> createEmptyGrid(GRID_SIZE), tiles |-> tile2Result.tilesWithNew,
      nextTileId |-> id + 2]

\* initializeGame with the id counter and the four random draws as parameters; the
\* grid it returns is the empty grid it created, not the grid of its tiles
initializeGame(id, randomIndex1, value1, randomIndex2, value2) ==
  LET tile1Result == addRandomTile(<<>>, id, randomIndex1, value1)
      tiles1 == IF tile1Result # Null THEN tile1Result.tilesWithNew ELSE <<>>
      id1 == IF tile1Result # Null THEN id + 1 ELSE id
      tile2Result == addRandomTile(tiles1, id1, randomIndex2, value2)
      tiles2 == IF tile2Result # Null THEN tile2Result.tilesWithNew ELSE tiles1
      id2 == IF tile2Result # Null THEN id1 + 1 ELSE id1
  IN [grid |-> createEmptyGrid(GRID_SIZE), tiles |-> tiles2, nextTileId |-> id2]

\* every outcome of initializeGame when the id counter is id
InitialGames(id) ==
  UNION {{initializeGame(id, r1, v1, r2, v2) :
            r2 \in RandomIndexes(addRandomTile(<<>>, id, r1, v1).tilesWithNew),
            v2 \in RandomValues} :
         r1 \in RandomIndexes(<<>>), v1 \in RandomValues}

(***************************************************************************)
(* Persistence (useGameStorage).                                           *)
(***************************************************************************)
\* saveGameState: the stored record holds the grid, the score and the terminal flag
\* (not the tiles); the best score is stored under its own key
saveGameState(state) ==
  [game |-> [grid |-> state.grid, score |-> state.score, isGameOver |-> state.isGameOver],
   best |-> <<state.bestScore>>]

\* the best score read back: 0 when the key is absent
loadedBestScore(store) == IF store.best = <<>> THEN 0 ELSE store.best[1]

\* the load effect of useGameStorage followed by the load effect of App: the game
\* state after mounting, given the default state and the time of the load
LoadedState(store, default, now) ==
  IF store.game # Null
  THEN [grid |-> store.game.grid,
        tiles |-> gridToTiles(store.game.grid, now),
        score |-> store.game.score,
        isGameOver |-> store.game.isGameOver,
        bestScore |-> loadedBestScore(store)]
  ELSE [default EXCEPT !.bestScore = loadedBestScore(store)]

(***************************************************************************)
(* The game loop (App).  Every action ends with the save effect, which     *)
(* runs after each change of the game state.                               *)
(***************************************************************************)
gameState ==
  [grid |-> grid, tiles |-> tiles, score |-> score, bestScore |-> bestScore,
   isGameOver |-> isGameOver]

Publish(state) ==
  /\ tiles' = state.tiles
  /\ grid' = state.grid
  /\ score' = state.score
  /\ bestScore' = state.bestScore
  /\ isGameOver' = state.isGameOver
  /\ storage' = saveGameState(state)

RECURSIVE DeriveGrid(_, _)
\* the grid memoizedHandleMove derives from the final tiles
DeriveGrid(g, ts) ==
  IF ts = <<>> THEN g
  ELSE DeriveGrid([g EXCEPT ![Head(ts).row][Head(ts).col] = Head(ts).value], Tail(ts))

\* memoizedHandleMove after the terminal check: the state it publishes
AfterCheck(state, id, result, addResult, finalTiles, check) ==
  [accepted |-> ~check.threw,
   guarded |-> FALSE,
   state |-> IF check.threw THEN state
             ELSE [grid |-> IF addResult # Null
                            THEN DeriveGrid(createEmptyGrid(GRID_SIZE), finalTiles)
                            ELSE state.grid,
                   tiles |-> finalTiles,
                   score |-> state.score + result.scoreIncrease,
                   bestScore |-> IF state.score + result.scoreIncrease > state.bestScore
                                 THEN state.score + result.scoreIncrease
                                 ELSE state.bestScore,
                   isGameOver |-> ~check.canMove],
   nextTileId |-> IF addResult # Null THEN id + 1 ELSE id,
   result |-> result,
   addResult |-> addResult]

\* the terminal check made on the tiles of the move, before the spawn
AfterSpawn_CheckBeforeSpawn(state, id, result, addResult, finalTiles) ==
  AfterCheck(state, id, result, addResult, finalTiles,
             checkAvailableMoves(result.updatedTiles))

\* memoizedHandleMove after the spawn: the final tiles and the terminal check on them
AfterSpawn(state, id, result, addResult, finalTiles) ==
  AfterCheck(state, id, result, addResult, finalTiles, checkAvailableMoves(finalTiles))

\* memoizedHandleMove spawning and publishing whatever the move reports
AfterMove_IgnoreMoved(state, id, randomIndex, value, result, addResult) ==
  IF result.threw
  THEN [accepted |-> FALSE, guarded |-> FALSE, state |-> state, nextTileId |-> id,
        result |-> result, addResult |-> Null]
  ELSE AfterSpawn(state, id, result, addResult,
                  IF addResult # Null THEN addResult.tilesWithNew ELSE result.updatedTiles)

\* memoizedHandleMove after the move: nothing happens unless the move reports moved
AfterMove(state, id, randomIndex, value, result, addResult) ==
  IF result.threw \/ ~result.moved
  THEN [accepted |-> FALSE, guarded |-> FALSE, state |-> state, nextTileId |-> id,
        result |-> result, addResult |-> Null]
  ELSE AfterSpawn(state, id, result, addResult,
                  IF addResult # Null THEN addResult.tilesWithNew ELSE result.updatedTiles)

\* the spawn on the tiles of a move result
SpawnAfter(result, id, randomIndex, value) ==
  addRandomTile(result.updatedTiles, id, randomIndex, value)

MoveThenSpawn(state, id, randomIndex, value, result) ==
  AfterMove(state, id, randomIndex, value, result, SpawnAfter(result, id, randomIndex, value))

\* the body of memoizedHandleMove without the return for a finished game
HandleMoveOutcome_NoGuard(state, direction, id, randomIndex, value) ==
  MoveThenSpawn(state, id, randomIndex, value, MoveResult(state.tiles, direction))

\* the body of memoizedHandleMove with the random draws of the spawn as parameters:
\* the state it publishes (or the state as it was), the id counter, and its calls
HandleMoveOutcome(state, direction, id, randomIndex, value) ==
  IF state.isGameOver
  THEN [accepted |-> FALSE, guarded |-> TRUE, state |-> state, nextTileId |-> id]
  ELSE MoveThenSpawn(state, id, randomIndex, value, MoveResult(state.tiles, direction))

\* the random indexes the spawn that follows a move result can draw, if it spawns
IndexesAfter(result) ==
  IF result.threw \/ ~result.moved \/ Len(emptyCells(result.updatedTiles)) = 0
  THEN {0}
  ELSE RandomIndexes(result.updatedTiles)

SpawnIndexes(ts, direction) == IndexesAfter(MoveResult(ts, direction))

\* what a direction request does to the state, given the outcome of its body
HandleMoveStep(direction, out) ==
  /\ call' = [op |-> "handleMove", direction |-> direction, before |-> gameState,
              guarded |-> out.guarded, accepted |-> out.accepted,
              result |-> IF out.guarded THEN Null ELSE out.result,
              newTile |-> IF out.guarded \/ out.addResult = Null THEN <<>>
                          ELSE <<out.addResult.newTile>>]
  /\ nextTileId' = out.nextTileId
  /\ IF out.accepted
     THEN Publish(out.state) /\ budget' = [budget EXCEPT !.moves = @ + 1]
     ELSE UNCHANGED <<tiles, grid, score, bestScore, isGameOver, storage, budget>>

\* a direction request (key or swipe)
memoizedHandleMove(direction, randomIndex, value) ==
  /\ budget.moves < MaxMoves
  /\ HandleMoveStep(direction,
                    HandleMoveOutcome(gameState, direction, nextTileId, randomIndex, value))

\* a reset that starts the best score again
ResetStep_ForgetBest(game) ==
  /\ Publish([grid |-> game.grid, tiles |-> game.tiles, score |-> 0,
              bestScore |-> 0, isGameOver |-> FALSE])
  /\ nextTileId' = game.nextTileId
  /\ call' = [op |-> "handleReset", score |-> score, bestScore |-> bestScore,
              isGameOver |-> isGameOver]
  /\ budget' = [budget EXCEPT !.resets = @ + 1]

\* what a reset does to the state, given the result of initializeGame
ResetStep(game) ==
  /\ Publish([grid |-> game.grid, tiles |-> game.tiles, score |-> 0,
              bestScore |-> bestScore, isGameOver |-> FALSE])
  /\ nextTileId' = game.nextTileId
  /\ call' = [op |-> "handleReset", score |-> score, bestScore |-> bestScore,
              isGameOver |-> isGameOver]
  /\ budget' = [budget EXCEPT !.resets = @ + 1]

\* the Reset button: clearGameState, initializeGame, then the save effect
handleReset(randomIndex1, value1, randomIndex2, value2) ==
  /\ budget.resets < MaxResets
  /\ ResetStep(initializeGame(nextTileId, randomIndex1, value1, randomIndex2, value2))

\* the state App starts from before the stored state is loaded
DefaultState(game) ==
  [grid |-> game.grid, tiles |-> game.tiles, score |-> 0, bestScore |-> 0,
   isGameOver |-> FALSE]

\* what a page load does to the state, given the result of initializeGame
ReloadStep(game, delay) ==
  /\ Publish(LoadedState(storage, DefaultState(game), delay))
  /\ nextTileId' = game.nextTileId
  /\ call' = [op |-> "reload", saved |-> tilesToGrid(tiles, GRID_SIZE), score |-> score,
              bestScore |-> bestScore, isGameOver |-> isGameOver]
  /\ budget' = [budget EXCEPT !.reloads = @ + 1]

\* the page is loaded again: gameLogic.ts is evaluated (time 0 of this page load, the
\* id counter starts there), App draws its default state with initializeGame, and
\* delay milliseconds later the stored state is loaded and replaces it
Reload(delay, game) ==
  /\ budget.reloads < MaxReloads
  /\ ReloadStep(game, delay)

\* the default states a page load can draw; when a stored game replaces the default
\* state, nothing of the draw but the id counter (the same for all) is kept, and one
\* stands for all of them
DefaultGames(store) ==
  IF store.game # Null THEN {CHOOSE game \in InitialGames(0) : TRUE} ELSE InitialGames(0)

\* the first visit: nothing is stored, gameLogic.ts is evaluated at time 0
Init ==
  /\ \E game \in InitialGames(0) :
       /\ tiles = game.tiles
       /\ grid = game.grid
       /\ nextTileId = game.nextTileId
  /\ score = 0
  /\ bestScore = 0
  /\ isGameOver = FALSE
  /\ storage = saveGameState(gameState)
  /\ call = [op |-> "init"]
  /\ budget = [moves |-> 0, resets |-> 0, reloads |-> 0]

Next ==
  \/ \E direction \in Directions :
       \E randomIndex \in SpawnIndexes(tiles, direction), value \in RandomValues :
         memoizedHandleMove(direction, randomIndex, value)
  \/ \E randomIndex1 \in RandomIndexes(<<>>), value1 \in RandomValues :
       \E randomIndex2 \in 0 .. (GRID_SIZE - 2), value2 \in RandomValues :
         handleReset(randomIndex1, value1, randomIndex2, value2)
  \/ \E delay \in 0 .. MaxDelay, game \in DefaultGames(storage) : Reload(delay, game)

Spec == Init /\ [][Next]_vars


(***************************************************************************)
(* The functions on their own.  SpecCore draws a valid board and applies   *)
(* a directional move to it (once, or twice in a row), or addRandomTile.   *)
(***************************************************************************)
\* the tile values of the boards under test
InputValues == {Pow2(e) : e \in 1 .. MaxExp}

\* the lines under test: every line of zeros and input values
LinePatterns == [Cells -> {0} \cup InputValues]

Transpose(g) == [r \in Cells |-> [c \in Cells |-> g[c][r]]]

\* one line p in row k of an otherwise empty board
RowBoard(p, k) == [r \in Cells |-> [c \in Cells |-> IF r = k THEN p[c] ELSE 0]]

\* the line p in every row
StackBoard(p) == [r \in Cells |-> [c \in Cells |-> p[c]]]

\* the line p in row 0, and in row r shifted by r cells
ShiftBoard(p) == [r \in Cells |-> [c \in Cells |-> p[(c + r) % GRID_SIZE]]]

\* a full board on which no two neighbours are equal, with the cell (r0, c0) set to v
CheckerBoard(r0, c0, v) ==
  [r \in Cells |-> [c \in Cells |->
     IF r = r0 /\ c = c0 THEN v ELSE IF (r + c) % 2 = 0 THEN 2 ELSE 4]]

InputGrids ==
  LET rows == {RowBoard(p, k) : p \in LinePatterns, k \in Cells}
      stacks == {StackBoard(p) : p \in LinePatterns}
      shifts == {ShiftBoard(p) : p \in LinePatterns}
      checkers == {CheckerBoard(r, c, v) : r \in Cells, c \in Cells, v \in {0} \cup InputValues}
      all == rows \cup stacks \cup shifts \cup checkers
  IN all \cup {Transpose(g) : g \in all}

RECURSIVE Reverse(_)
Reverse(s) == IF s = <<>> THEN <<>> ELSE Append(Reverse(Tail(s)), Head(s))

\* the valid tile lists under test: one tile per nonzero cell, ids from 1, listed in
\* row-major order or in the opposite order
InputBoards ==
  {gridToTiles(g, 1) : g \in InputGrids} \cup {Reverse(gridToTiles(g, 1)) : g \in InputGrids}

InitCore ==
  /\ tiles \in InputBoards
  /\ grid = tilesToGrid(tiles, GRID_SIZE)
  /\ score = 0
  /\ bestScore = 0
  /\ isGameOver = FALSE
  /\ nextTileId = GRID_SIZE * GRID_SIZE + 1
  /\ storage = [game |-> Null, best |-> <<>>]
  /\ call = [op |-> "none"]
  /\ budget = [moves |-> 0, resets |-> 0, reloads |-> 0]

\* what a call of a move function returns, recorded with its input
MoveCall(direction, result) ==
  /\ call' = [op |-> "move", direction |-> direction, input |-> tiles, result |-> result,
              prev |-> IF call.op = "none" THEN Null
                       ELSE [direction |-> call.direction,
                             scoreIncrease |-> call.result.scoreIncrease,
                             moved |-> call.result.moved]]
  /\ tiles' = result.updatedTiles
  /\ grid' = tilesToGrid(result.updatedTiles, GRID_SIZE)
  /\ UNCHANGED <<score, bestScore, isGameOver, nextTileId, storage, budget>>

\* a move function is called on the board; a second call follows on its result
CallMove(direction) ==
  /\ call.op = "none" \/ (call.op = "move" /\ call.prev = Null)
  /\ MoveCall(direction, MoveResult(tiles, direction))

\* what a call of addRandomTile returns, recorded with its input
SpawnCall(addResult) ==
  /\ call' = [op |-> "addRandomTile", input |-> tiles, id |-> nextTileId,
              addResult |-> addResult]
  /\ tiles' = IF addResult # Null THEN addResult.tilesWithNew ELSE tiles
  /\ grid' = tilesToGrid(tiles', GRID_SIZE)
  /\ nextTileId' = IF addResult # Null THEN nextTileId + 1 ELSE nextTileId
  /\ UNCHANGED <<score, bestScore, isGameOver, storage, budget>>

\* addRandomTile is called on the board
CallAddRandomTile(randomIndex, value) ==
  /\ call.op = "none"
  /\ SpawnCall(addRandomTile(tiles, nextTileId, randomIndex, value))

\* the random indexes addRandomTile can draw on ts, if it draws
DrawIndexes(ts) == IF Len(emptyCells(ts)) = 0 THEN {0} ELSE RandomIndexes(ts)

\* what a call of checkAvailableMoves returns, recorded with its input
CheckCall(check) ==
  /\ call' = [op |-> "checkAvailableMoves", input |-> tiles, check |-> check]
  /\ UNCHANGED <<tiles, grid, score, bestScore, isGameOver, nextTileId, storage, budget>>

\* checkAvailableMoves is called on the board
CallCheckAvailableMoves ==
  /\ call.op = "none"
  /\ CheckCall(checkAvailableMoves(tiles))

\* what a call of gridToTiles returns, recorded with its input, and the grid that
\* tilesToGrid makes of the returned tiles
GridToTilesCall(result) ==
  /\ call' = [op |-> "gridToTiles", input |-> grid, result |-> result,
              back |-> tilesToGrid(result, GRID_SIZE)]
  /\ UNCHANGED <<tiles, grid, score, bestScore, isGameOver, nextTileId, storage, budget>>

\* gridToTiles is called on the grid of the board when Date.now() is now
CallGridToTiles(now) ==
  /\ call.op = "none"
  /\ GridToTilesCall(gridToTiles(grid, now))

\* what a call of tilesToGrid returns, recorded with its input
TilesToGridCall(result) ==
  /\ call' = [op |-> "tilesToGrid", input |-> tiles, result |-> result]
  /\ UNCHANGED <<tiles, grid, score, bestScore, isGameOver, nextTileId, storage, budget>>

\* tilesToGrid is called on the board
CallTilesToGrid ==
  /\ call.op = "none"
  /\ TilesToGridCall(tilesToGrid(tiles, GRID_SIZE))

\* what moveRowLeft returns for the rows of the grid of the board, recorded with
\* what moveLeft returns for the board
RowLeftCall(rows, left) ==
  /\ call' = [op |-> "moveRowLeft", input |-> tiles, rows |-> rows, left |-> left]
  /\ UNCHANGED <<tiles, grid, score, bestScore, isGameOver, nextTileId, storage, budget>>

\* moveRowLeft is called on each row of the grid of the board, and moveLeft on the
\* board
CallMoveRowLeft ==
  /\ call.op = "none"
  /\ RowLeftCall([k \in Cells |-> moveRowLeft(grid[k])], moveLeft(tiles))

\* the tiles with their columns reflected, their rows reflected, and their rows and
\* columns exchanged
ReflectCols(ts) == [i \in 1 .. Len(ts) |-> [ts[i] EXCEPT !.col = GRID_SIZE - 1 - @]]

ReflectRows(ts) == [i \in 1 .. Len(ts) |-> [ts[i] EXCEPT !.row = GRID_SIZE - 1 - @]]

TransposeTiles(ts) ==
  [i \in 1 .. Len(ts) |-> [ts[i] EXCEPT !.row = ts[i].col, !.col = ts[i].row]]

\* what the four move functions return for the board, recorded with what moveLeft
\* returns for the reflected and the transposed board and moveUp for the board
\* with its rows reflected
MirrorCall(left, right, up, down, leftOfReflected, leftOfTransposed, upOfReflected) ==
  /\ call' = [op |-> "mirrors", input |-> tiles, left |-> left, right |-> right,
              up |-> up, down |-> down, leftOfReflected |-> leftOfReflected,
              leftOfTransposed |-> leftOfTransposed, upOfReflected |-> upOfReflected]
  /\ UNCHANGED <<tiles, grid, score, bestScore, isGameOver, nextTileId, storage, budget>>

\* the four move functions are called on the board and on its mirror images
CallMirrors ==
  /\ call.op = "none"
  /\ MirrorCall(moveLeft(tiles), moveRight(tiles), moveUp(tiles), moveDown(tiles),
                moveLeft(ReflectCols(tiles)), moveLeft(TransposeTiles(tiles)),
                moveUp(ReflectRows(tiles)))

\* a function was called on the board: the tile list of the caller before and
\* after the call, and whether the call did something (a move that moved, a
\* terminal check that simulated the moves, a spawn that found a cell)
InspectCall(fn, inputAfter, effect) ==
  /\ call' = [op |-> "inspect", fn |-> fn, input |-> tiles, inputAfter |-> inputAfter,
              effect |-> effect]
  /\ UNCHANGED <<tiles, grid, score, bestScore, isGameOver, nextTileId, storage, budget>>

\* a move function is called and the tile list of the caller is looked at
InspectMove(direction) ==
  /\ call.op = "none"
  /\ InspectCall(direction, InputAfterMove(tiles, direction),
                 MoveResult(tiles, direction).moved)

\* checkAvailableMoves is called and the tile list of the caller is looked at
InspectCheck ==
  /\ call.op = "none"
  /\ InspectCall("checkAvailableMoves", InputAfterCheck(tiles),
                 Len(tiles) = GRID_SIZE * GRID_SIZE)

\* addRandomTile is called and the tile list of the caller is looked at
InspectSpawn(randomIndex, value) ==
  /\ call.op = "none"
  /\ InspectCall("addRandomTile",
                 InputAfterSpawn(tiles, addRandomTile(tiles, nextTileId, randomIndex, value)),
                 addRandomTile(tiles, nextTileId, randomIndex, value) # Null)

\* what moveLeft returns for the board and moveRight for the tiles moveLeft
\* returned
LeftRightCall(left, right) ==
  /\ call' = [op |-> "leftRight", input |-> tiles, left |-> left, right |-> right]
  /\ UNCHANGED <<tiles, grid, score, bestScore, isGameOver, nextTileId, storage, budget>>

\* moveLeft is called on the board and moveRight on its result
CallLeftThenRight ==
  /\ call.op = "none"
  /\ LeftRightCall(moveLeft(tiles), moveRight(moveLeft(tiles).updatedTiles))

\* what a move that moved returns and what addRandomTile returns for its tiles
MoveSpawnCall(direction, result, addResult) ==
  /\ call' = [op |-> "moveSpawn", direction |-> direction, input |-> tiles,
              result |-> result, addResult |-> addResult]
  /\ UNCHANGED <<tiles, grid, score, bestScore, isGameOver, nextTileId, storage, budget>>

\* addRandomTile is called on the tiles of a move that moved
SpawnAfterMove(direction, result) ==
  /\ ~result.threw
  /\ result.moved
  /\ \E randomIndex \in IndexesAfter(result), value \in RandomValues :
       MoveSpawnCall(direction, result, SpawnAfter(result, nextTileId, randomIndex, value))

\* a move function is called on the board and, as it moved, addRandomTile on the
\* tiles it returned
CallMoveThenSpawn(direction) ==
  /\ call.op = "none"
  /\ SpawnAfterMove(direction, MoveResult(tiles, direction))

NextCore ==
  \/ \E direction \in Directions : CallMove(direction)
  \/ \E randomIndex \in DrawIndexes(tiles), value \in RandomValues :
       CallAddRandomTile(randomIndex, value)
  \/ CallCheckAvailableMoves
  \/ \E now \in 0 .. MaxDelay : CallGridToTiles(now)
  \/ CallTilesToGrid
  \/ CallMoveRowLeft
  \/ CallMirrors
  \/ \E direction \in Directions : InspectMove(direction)
  \/ InspectCheck
  \/ CallLeftThenRight
  \/ \E direction \in Directions : CallMoveThenSpawn(direction)
  \/ \E randomIndex \in DrawIndexes(tiles), value \in RandomValues :
       InspectSpawn(randomIndex, value)

SpecCore == InitCore /\ [][NextCore]_vars


(***************************************************************************)
(* The game loop late in a game.  SpecLoop starts where a page load with   *)
(* a stored game leaves the program: the stored board is full, or full     *)
(* but for one cell, the tiles are the conversion of the stored grid, and  *)
(* the id counter is behind the two tiles the default state drew.  The     *)
(* load is late enough for the ids of the tiles to stay ahead of the id    *)
(* counter; the runs in which the counter catches up are runs of Spec.     *)
(***************************************************************************)
\* the stored boards: the full boards without equal neighbours, and these boards
\* with one cell emptied or holding another value
StoredGrids ==
  {CheckerBoard(r, c, v) : r \in Cells, c \in Cells, v \in {0} \cup InputValues}

\* the record saveGameState stored for the board g, with the flag the loop computed
\* when it published g
StoredGame(g, check) == [grid |-> g, score |-> 0, isGameOver |-> ~check.canMove]

StoredGames == {StoredGame(g, checkAvailableMoves(gridToTiles(g, 0))) : g \in StoredGrids}

\* the program after the load effects, given the loaded state
InitLoaded(state, game) ==
  /\ tiles = state.tiles
  /\ grid = state.grid
  /\ score = state.score
  /\ bestScore = state.bestScore
  /\ isGameOver = state.isGameOver
  /\ nextTileId = game.nextTileId
  /\ storage = saveGameState(state)
  /\ call = [op |-> "load"]
  /\ budget = [moves |-> 0, resets |-> 0, reloads |-> 0]

InitLoop ==
  \E stored \in StoredGames :
    InitLoaded(LoadedState([game |-> stored, best |-> <<0>>], Null, LateDelay),
               CHOOSE game \in InitialGames(0) : TRUE)

\* the requests of the player: a direction, or the Reset button
NextLoop ==
  \/ \E direction \in Directions :
       \E randomIndex \in SpawnIndexes(tiles, direction), value \in RandomValues :
         memoizedHandleMove(direction, randomIndex, value)
  \/ \E randomIndex1 \in RandomIndexes(<<>>), value1 \in RandomValues :
       \E randomIndex2 \in 0 .. (GRID_SIZE - 2), value2 \in RandomValues :
         handleReset(randomIndex1, value1, randomIndex2, value2)

SpecLoop == InitLoop /\ [][NextLoop]_vars


(***************************************************************************)
(* The game loop after an early load.  SpecEarly starts where a page load  *)
(* with a stored game leaves the program when the stored state is loaded   *)
(* within MaxDelay milliseconds of the evaluation of gameLogic.ts: the     *)
(* tiles take their ids from the time of the load, the id counter is two   *)
(* past the time of the evaluation.  The player then requests directions.  *)
(***************************************************************************)
InitEarly ==
  \E stored \in StoredGames, delay \in 0 .. MaxDelay :
    InitLoaded(LoadedState([game |-> stored, best |-> <<0>>], Null, delay),
               CHOOSE game \in InitialGames(0) : TRUE)

\* the requests of the player: a direction
NextEarly ==
  \E direction \in Directions :
    \E randomIndex \in SpawnIndexes(tiles, direction), value \in RandomValues :
      memoizedHandleMove(direction, randomIndex, value)

SpecEarly == InitEarly /\ [][NextEarly]_vars


(***************************************************************************)
(* The directional moves on malformed input.  SpecMalformed draws a tile   *)
(* list with one defect and applies a directional move to it (once, or     *)
(* twice in a row).                                                        *)
(***************************************************************************)
\* the boards the defects are put on: one line of tiles in row 0 or in column 0
LineBoards ==
  {gridToTiles(RowBoard(p, 0), 1) : p \in LinePatterns}
    \cup {gridToTiles(Transpose(RowBoard(p, 0)), 1) : p \in LinePatterns}

\* the board ts with the value of its i-th tile replaced by v
WithValue(ts, i, v) == [ts EXCEPT ![i].value = v]

\* ts with one more tile, of value v, on the cell of its first tile
WithDuplicate(ts, v) ==
  Append(ts, [id |-> Len(ts) + 1, value |-> v, row |-> ts[1].row, col |-> ts[1].col,
              merged |-> FALSE])

\* ts with the coordinate axis of its first tile set to x
WithCoordinate(ts, axis, x) == [ts EXCEPT ![1][axis] = x]

\* the tile lists with one defect: two tiles on one cell, a coordinate off the
\* board, or a value that is not a power of two
MalformedBoards ==
  UNION {{WithDuplicate(ts, v) : v \in InputValues}
           \cup {WithCoordinate(ts, axis, x) : axis \in {"row", "col"}, x \in {-1, GRID_SIZE}}
           \cup {WithValue(ts, 1, v) : v \in {3, 6}} :
         ts \in LineBoards \ {<<>>}}

InitMalformed ==
  /\ tiles \in MalformedBoards
  /\ grid = tilesToGrid(tiles, GRID_SIZE)
  /\ score = 0
  /\ bestScore = 0
  /\ isGameOver = FALSE
  /\ nextTileId = GRID_SIZE * GRID_SIZE + 1
  /\ storage = [game |-> Null, best |-> <<>>]
  /\ call = [op |-> "none"]
  /\ budget = [moves |-> 0, resets |-> 0, reloads |-> 0]

NextMalformed == \E direction \in Directions : CallMove(direction)

SpecMalformed == InitMalformed /\ [][NextMalformed]_vars


(***************************************************************************)
(* Properties of the directional moves (SpecCore).                         *)
(***************************************************************************)
IsMove == call.op = "move"

\* the tile of ts with the given id (the tile lists of SpecCore have distinct ids)
TileOf(ts, id) == ts[CHOOSE i \in 1 .. Len(ts) : ts[i].id = id]

\* the coordinate that names the line of a tile, and its distance from the target edge
LineNo(t, direction) == IF direction \in {"left", "right"} THEN t.row ELSE t.col

Dist(t, direction) ==
  CASE direction = "left" -> t.col
    [] direction = "right" -> GRID_SIZE - 1 - t.col
    [] direction = "up" -> t.row
    [] direction = "down" -> GRID_SIZE - 1 - t.row

\* the value at distance i from the target edge in line k of the grid g
ValueAt(g, direction, k, i) ==
  CASE direction = "left" -> g[k][i]
    [] direction = "right" -> g[k][GRID_SIZE - 1 - i]
    [] direction = "up" -> g[i][k]
    [] direction = "down" -> g[GRID_SIZE - 1 - i][k]

\* line k of the grid of ts as seen from the target edge: four values
LineFromEdge(ts, direction, k) ==
  [i \in 1 .. GRID_SIZE |-> ValueAt(tilesToGrid(ts, GRID_SIZE), direction, k, i - 1)]

RECURSIVE NonZero(_)
NonZero(line) ==
  IF line = <<>> THEN <<>>
  ELSE IF Head(line) = 0 THEN NonZero(Tail(line)) ELSE <<Head(line)>> \o NonZero(Tail(line))

\* the tiles of the output whose value differs from the value they had in the input
Doubled(in, out) == {i \in 1 .. Len(out) : out[i].value # TileOf(in, out[i].id).value}

\* the tiles of the input whose id is not in the output
Absorbed(in, out) == {i \in 1 .. Len(in) : in[i].id \notin Ids(out)}

RECURSIVE SumOver(_, _, _)
\* the sum of the values of the tiles of ts at the indexes in idx, times factor
SumOver(ts, idx, factor) ==
  IF idx = {} THEN 0
  ELSE LET i == CHOOSE j \in idx : TRUE
       IN factor * ts[i].value + SumOver(ts, idx \ {i}, factor)

\* C1: a tile produced by a merge never merges again in the same move: every tile of
\* the output has its input value or twice its input value, and as many tiles were
\* doubled as were absorbed; a line of three equal tiles v,v,v becomes 2v,v and a
\* line of four becomes 2v,2v, seen from the target edge; the row [2,2,2,0] alone on
\* the board moved left becomes [4,2,0,0] with scoreIncrease 4
C1_MergeGuard ==
  IsMove =>
    LET in == call.input
        out == call.result.updatedTiles
        d == call.direction
    IN /\ \A i \in 1 .. Len(out) :
            out[i].value \in {TileOf(in, out[i].id).value, 2 * TileOf(in, out[i].id).value}
       /\ Cardinality(Doubled(in, out)) = Cardinality(Absorbed(in, out))
       /\ \A k \in Cells :
            LET nz == NonZero(LineFromEdge(in, d, k))
                v == nz[1]
            IN /\ (Len(nz) = 3 /\ nz = <<v, v, v>>)
                    => LineFromEdge(out, d, k) = <<2 * v, v, 0, 0>>
               /\ (Len(nz) = 4 /\ nz = <<v, v, v, v>>)
                    => LineFromEdge(out, d, k) = <<2 * v, 2 * v, 0, 0>>
       /\ (d = "left" /\ \E k \in Cells :
             tilesToGrid(in, GRID_SIZE) = RowBoard([c \in Cells |-> IF c < 3 THEN 2 ELSE 0], k))
            => /\ call.result.scoreIncrease = 4
               /\ \E k \in Cells : tilesToGrid(out, GRID_SIZE)
                                     = RowBoard([c \in Cells |-> IF c = 0 THEN 4
                                                                 ELSE IF c = 1 THEN 2 ELSE 0], k)

\* C1 witness: the row [2,2,2,0], alone on the board, was moved left and became
\* [4,2,0,0] with scoreIncrease 4
C1_Witness ==
  /\ IsMove
  /\ call.direction = "left"
  /\ Len(call.input) = 3
  /\ LineFromEdge(call.input, "left", 0) = <<2, 2, 2, 0>>
  /\ LineFromEdge(call.result.updatedTiles, "left", 0) = <<4, 2, 0, 0>>
  /\ Len(call.result.updatedTiles) = 2
  /\ call.result.scoreIncrease = 4

\* a tile of the input that is not in the output as it was (same id, value and cell)
Changed(in, out) ==
  \E i \in 1 .. Len(in) :
    ~\E j \in 1 .. Len(out) :
       /\ out[j].id = in[i].id
       /\ out[j].value = in[i].value
       /\ out[j].row = in[i].row
       /\ out[j].col = in[i].col

\* C2: moved is true iff a tile changed position or value, iff the dense grid of
\* updatedTiles differs from the dense grid of the input
C2_MovedIffChanged ==
  IsMove =>
    /\ call.result.moved <=> Changed(call.input, call.result.updatedTiles)
    /\ call.result.moved <=>
         tilesToGrid(call.result.updatedTiles, GRID_SIZE) # tilesToGrid(call.input, GRID_SIZE)

\* C2 witness: a move that only compacts (no merge) reports moved
C2_Witness ==
  /\ IsMove
  /\ call.result.moved
  /\ call.result.scoreIncrease = 0
  /\ Len(call.result.updatedTiles) = Len(call.input)
  /\ Len(call.input) >= 2
  /\ tilesToGrid(call.result.updatedTiles, GRID_SIZE) # tilesToGrid(call.input, GRID_SIZE)

\* C3: scoreIncrease is the sum of the new values of the tiles that merged (which is
\* twice the sum of the values of the absorbed tiles), and 0 when nothing merged
C3_ScoreIsSumOfMerges ==
  IsMove =>
    LET in == call.input
        out == call.result.updatedTiles
    IN /\ call.result.scoreIncrease = SumOver(out, Doubled(in, out), 1)
       /\ call.result.scoreIncrease = SumOver(in, Absorbed(in, out), 2)
       /\ (Absorbed(in, out) = {}) => call.result.scoreIncrease = 0

\* C3 witness: a move with merges in several lines and of different values
C3_Witness ==
  /\ IsMove
  /\ Cardinality(Absorbed(call.input, call.result.updatedTiles)) >= 3
  /\ \E i, j \in Doubled(call.input, call.result.updatedTiles) :
       call.result.updatedTiles[i].value # call.result.updatedTiles[j].value
  /\ call.result.scoreIncrease
       = SumOver(call.result.updatedTiles, Doubled(call.input, call.result.updatedTiles), 1)


\* C4 as claimed: a second call in the same direction reports moved = false and
\* returns the board of the first call
C4_Idempotent ==
  (IsMove /\ call.prev # Null /\ call.prev.direction = call.direction)
    => /\ ~call.result.moved
       /\ call.result.updatedTiles = call.input

\* C4 amended: when the first call merged no tiles, a second call in the same
\* direction reports moved = false and scoreIncrease 0 and returns the same board
C4_IdempotentWithoutMerge ==
  (IsMove /\ call.prev # Null /\ call.prev.direction = call.direction
     /\ call.prev.scoreIncrease = 0)
    => /\ ~call.result.moved
       /\ call.result.scoreIncrease = 0
       /\ call.result.updatedTiles = call.input

\* C4 witness: the first call moved tiles without merging, the second call in the
\* same direction changed nothing
C4_Witness ==
  /\ IsMove
  /\ call.prev # Null
  /\ call.prev.direction = call.direction
  /\ call.prev.moved
  /\ call.prev.scoreIncrease = 0
  /\ ~call.result.moved
  /\ call.result.updatedTiles = call.input

\* C5 as claimed: the sum of the values after a move is the sum before it plus
\* scoreIncrease
C5_SumPlusScore ==
  IsMove =>
    SumValues(call.result.updatedTiles) = SumValues(call.input) + call.result.scoreIncrease

\* C5 amended: the sum of the values after a move is the sum before it, whatever
\* scoreIncrease is
C5_SumConserved ==
  IsMove => SumValues(call.result.updatedTiles) = SumValues(call.input)

\* C5 witness: a move that merged (scoreIncrease > 0) and kept the sum
C5_Witness ==
  /\ IsMove
  /\ call.result.scoreIncrease > 0
  /\ Len(call.result.updatedTiles) < Len(call.input)
  /\ SumValues(call.result.updatedTiles) = SumValues(call.input)

\* the tile of ts on the cell at distance i from the target edge in line k
TileAt(ts, direction, k, i) ==
  ts[CHOOSE j \in 1 .. Len(ts) : LineNo(ts[j], direction) = k /\ Dist(ts[j], direction) = i]

\* two neighbours along the axis of the move with the same value, in line k at
\* distances i and i + 1 from the target edge
EqualNeighbours(ts, direction, k, i) ==
  LET line == LineFromEdge(ts, direction, k)
  IN line[i + 1] # 0 /\ line[i + 1] = line[i + 2]

\* C6 as claimed: after a move no line along its axis holds two adjacent equal tiles
C6_NoEqualNeighbours ==
  IsMove =>
    \A k \in Cells, i \in 0 .. (GRID_SIZE - 2) :
      ~EqualNeighbours(call.result.updatedTiles, call.direction, k, i)

\* C6 amended: after a move, two adjacent tiles along its axis have the same value
\* only if at least one of them was produced by a merge of this move
C6_EqualNeighboursAreMerged ==
  IsMove =>
    LET in == call.input
        out == call.result.updatedTiles
        d == call.direction
    IN \A k \in Cells, i \in 0 .. (GRID_SIZE - 2) :
         EqualNeighbours(out, d, k, i)
           => \/ TileAt(out, d, k, i).value # TileOf(in, TileAt(out, d, k, i).id).value
              \/ TileAt(out, d, k, i + 1).value
                   # TileOf(in, TileAt(out, d, k, i + 1).id).value

\* C6 witness: after a move two equal tiles are neighbours, one of them merged and
\* the other not (2,2,4 became 4,4)
C6_Witness ==
  /\ IsMove
  /\ \E k \in Cells :
       LET in == call.input
           out == call.result.updatedTiles
           d == call.direction
       IN /\ EqualNeighbours(out, d, k, 0)
          /\ TileAt(out, d, k, 0).value # TileOf(in, TileAt(out, d, k, 0).id).value
          /\ TileAt(out, d, k, 1).value = TileOf(in, TileAt(out, d, k, 1).id).value

\* b was merged into a: both in one line, equal values, a nearer to the target edge,
\* no tile between them, and b is gone
MergedInto(in, out, direction, a, b) ==
  /\ LineNo(a, direction) = LineNo(b, direction)
  /\ a.value = b.value
  /\ Dist(a, direction) < Dist(b, direction)
  /\ ~\E i \in 1 .. Len(in) :
        /\ LineNo(in[i], direction) = LineNo(a, direction)
        /\ Dist(a, direction) < Dist(in[i], direction)
        /\ Dist(in[i], direction) < Dist(b, direction)
  /\ b.id \notin Ids(out)

\* C7: a move introduces no id and repeats none; every tile of the input either is
\* in the output with its id and its value, or is in the output with its id and
\* twice its value, having absorbed the next tile of its line (equal value, farther
\* from the target edge), or is not in the output, having been absorbed by the
\* previous tile of its line, which is in the output with twice the value
C7_TileIdentity ==
  IsMove =>
    LET in == call.input
        out == call.result.updatedTiles
        d == call.direction
    IN /\ Ids(out) \subseteq Ids(in)
       /\ Cardinality(Ids(out)) = Len(out)
       /\ \A i \in 1 .. Len(in) :
            LET t == in[i]
            IN \/ /\ t.id \in Ids(out)
                  /\ TileOf(out, t.id).value = t.value
                  /\ ~\E j \in 1 .. Len(in) : MergedInto(in, out, d, t, in[j])
               \/ /\ t.id \in Ids(out)
                  /\ TileOf(out, t.id).value = 2 * t.value
                  /\ \E j \in 1 .. Len(in) : MergedInto(in, out, d, t, in[j])
               \/ /\ t.id \notin Ids(out)
                  /\ \E j \in 1 .. Len(in) :
                       /\ MergedInto(in, out, d, in[j], t)
                       /\ in[j].id \in Ids(out)
                       /\ TileOf(out, in[j].id).value = 2 * t.value

\* C7 witness: in one move a tile slid to another cell keeping id and value, and
\* another tile absorbed its neighbour
C7_Witness ==
  /\ IsMove
  /\ LET in == call.input
         out == call.result.updatedTiles
     IN /\ \E i \in 1 .. Len(in) :
             /\ in[i].id \in Ids(out)
             /\ TileOf(out, in[i].id).value = in[i].value
             /\ <<TileOf(out, in[i].id).row, TileOf(out, in[i].id).col>>
                  # <<in[i].row, in[i].col>>
        /\ \E i, j \in 1 .. Len(in) :
             /\ MergedInto(in, out, call.direction, in[i], in[j])
             /\ TileOf(out, in[i].id).value = 2 * in[i].value


(***************************************************************************)
(* Properties of the spawner (SpecCore) and of the tile ids (Spec).        *)
(***************************************************************************)
\* C8 as claimed: the ids of the tiles on the board are pairwise distinct in every
\* state of the game
C8_DistinctIds == Cardinality(Ids(tiles)) = Len(tiles)

IsSpawn == call.op = "addRandomTile"

\* the empty cells of the grid of ts
EmptyCellSet(ts) ==
  {rc \in Cells \X Cells : tilesToGrid(ts, GRID_SIZE)[rc[1]][rc[2]] = 0}

\* C9: addRandomTile returns null iff the board has no empty cell; otherwise it
\* returns the input list with one tile appended, of value 2 or 4, on a cell that
\* was empty (the empty cell, when there is only one), with the id of the counter
C9_SpawnOrNoSpace ==
  IsSpawn =>
    LET in == call.input
        res == call.addResult
    IN /\ (res = Null) <=> (EmptyCellSet(in) = {})
       /\ (res # Null) =>
            /\ Len(res.tilesWithNew) = Len(in) + 1
            /\ SubSeq(res.tilesWithNew, 1, Len(in)) = in
            /\ res.tilesWithNew[Len(in) + 1] = res.newTile
            /\ res.newTile.value \in {2, 4}
            /\ res.newTile.id = call.id
            /\ <<res.newTile.row, res.newTile.col>> \in EmptyCellSet(in)
            /\ \A rc \in Cells \X Cells :
                 EmptyCellSet(in) = {rc} => <<res.newTile.row, res.newTile.col>> = rc

\* C9 witness: the board had one empty cell, below row 0, and the new tile is on it
C9_Witness ==
  /\ IsSpawn
  /\ call.addResult # Null
  /\ Cardinality(EmptyCellSet(call.input)) = 1
  /\ call.addResult.newTile.row > 0
  /\ EmptyCellSet(call.input) = {<<call.addResult.newTile.row, call.addResult.newTile.col>>}
  /\ Len(call.addResult.tilesWithNew) = GRID_SIZE * GRID_SIZE

\* the cells on which some draw of addRandomTile puts the new tile
SpawnCells(ts, id) ==
  {<<addRandomTile(ts, id, randomIndex, 2).newTile.row,
     addRandomTile(ts, id, randomIndex, 2).newTile.col>> : randomIndex \in RandomIndexes(ts)}

\* C10: when row 0 has an empty cell the new tile is in row 0, and every empty cell
\* of row 0 can be drawn; when row 0 is full the new tile is in rows 1..3, and every
\* empty cell of these rows can be drawn
C10_TopRowFirst ==
  (IsSpawn /\ call.addResult # Null) =>
    LET in == call.input
        t == call.addResult.newTile
        top == {rc \in EmptyCellSet(in) : rc[1] = 0}
    IN /\ (top # {}) => (t.row = 0 /\ SpawnCells(in, call.id) = top)
       /\ (top = {}) => (t.row \in 1 .. (GRID_SIZE - 1)
                          /\ SpawnCells(in, call.id) = EmptyCellSet(in))

\* C10 witness: row 0 and another row both had empty cells, and the new tile is in
\* row 0
C10_Witness ==
  /\ IsSpawn
  /\ call.addResult # Null
  /\ \E rc \in EmptyCellSet(call.input) : rc[1] = 0
  /\ Cardinality({rc \in EmptyCellSet(call.input) : rc[1] > 0}) >= 2
  /\ Len(call.input) >= 2
  /\ call.addResult.newTile.row = 0

(***************************************************************************)
(* Properties of the terminal-state detector (SpecCore).                   *)
(***************************************************************************)
IsCheck == call.op = "checkAvailableMoves"

\* no cell of g is empty
IsFull(g) == \A r \in Cells, c \in Cells : g[r][c] # 0

\* two cells of g next to each other in a row or in a column hold the same value
HasEqualPair(g) ==
  \/ \E r \in Cells, c \in 0 .. (GRID_SIZE - 2) : g[r][c] # 0 /\ g[r][c] = g[r][c + 1]
  \/ \E r \in 0 .. (GRID_SIZE - 2), c \in Cells : g[r][c] # 0 /\ g[r][c] = g[r + 1][c]

\* C11: checkAvailableMoves returns false exactly when the board is full and no two
\* neighbours in a row or a column are equal; and from a full board on which it
\* returns false, replacing the value of one tile so that two neighbours are equal
\* gives a board on which it returns true
C11_TerminalIffFullAndNoPair ==
  IsCheck =>
    LET in == call.input
        g == tilesToGrid(in, GRID_SIZE)
    IN /\ ~call.check.threw
       /\ (~call.check.canMove) <=> (IsFull(g) /\ ~HasEqualPair(g))
       /\ (~call.check.canMove) =>
            \A i \in 1 .. Len(in), v \in InputValues :
              HasEqualPair(tilesToGrid(WithValue(in, i, v), GRID_SIZE))
                => checkAvailableMoves(WithValue(in, i, v)).canMove

\* C11 witness: the detector returned false on a full board, and there is a tile of
\* it whose value can be replaced to make two neighbours equal
C11_Witness ==
  /\ IsCheck
  /\ ~call.check.canMove
  /\ Len(call.input) = GRID_SIZE * GRID_SIZE
  /\ \E i \in 1 .. Len(call.input), v \in InputValues :
       HasEqualPair(tilesToGrid(WithValue(call.input, i, v), GRID_SIZE))

(***************************************************************************)
(* Properties of the game loop (Spec, SpecLoop).                           *)
(***************************************************************************)
\* the move of ts in the given direction changes the value or the position of a tile
WouldChange(ts, result) ==
  result.threw \/ tilesToGrid(result.updatedTiles, GRID_SIZE) # tilesToGrid(ts, GRID_SIZE)

\* the board ts is full and no directional move changes it
IsTerminal(ts) ==
  /\ IsFull(tilesToGrid(ts, GRID_SIZE))
  /\ \A direction \in Directions : ~WouldChange(ts, MoveResult(ts, direction))

\* C12: in every state the game loop publishes, isGameOver is true exactly when the
\* board (as it is after the spawn) is full and no directional move changes it
C12_GameOverIffTerminal == isGameOver <=> IsTerminal(tiles)

\* C12 witness: an accepted move filled the last empty cell of the board, and the
\* board with the spawned tile is terminal while the board of the move was not full
C12_Witness ==
  /\ call.op = "handleMove"
  /\ call.accepted
  /\ isGameOver
  /\ Len(call.result.updatedTiles) = GRID_SIZE * GRID_SIZE - 1
  /\ Len(tiles) = GRID_SIZE * GRID_SIZE

\* n is a positive power of two (2, 4, 8, ...)
RECURSIVE IsPowerOfTwo(_)
IsPowerOfTwo(n) == IF n < 2 THEN FALSE ELSE IF n = 2 THEN TRUE
                   ELSE n % 2 = 0 /\ IsPowerOfTwo(n \div 2)

\* the invariants of the data model on a tile list
WellFormed(ts) ==
  /\ Len(ts) <= GRID_SIZE * GRID_SIZE
  /\ \A i \in 1 .. Len(ts) :
       /\ ts[i].row \in Cells
       /\ ts[i].col \in Cells
       /\ IsPowerOfTwo(ts[i].value)
  /\ \A i \in 1 .. Len(ts), j \in 1 .. Len(ts) :
       (ts[i].row = ts[j].row /\ ts[i].col = ts[j].col) => i = j

\* C13: in every state reached by directional moves, spawns and resets, at most one
\* tile is on each cell, every tile is on the board, there are at most 16 tiles,
\* and every value is a power of two greater than 1
C13_WellFormed == budget.reloads = 0 => WellFormed(tiles)

\* C13 witness: an accepted move merged tiles of a board with 15 tiles and a tile
\* was spawned on the moved board
C13_Witness ==
  /\ budget.reloads = 0
  /\ call.op = "handleMove"
  /\ call.accepted
  /\ Len(call.before.tiles) = GRID_SIZE * GRID_SIZE - 1
  /\ call.result.scoreIncrease > 0
  /\ call.newTile # <<>>
  /\ Len(tiles) = GRID_SIZE * GRID_SIZE - 1

\* C14: the grid of the game state is the projection of its tile list onto the
\* board, with 0 on the cells without a tile, in every reachable state
C14_GridIsProjection == grid = tilesToGrid(tiles, GRID_SIZE)

\* a new game: two tiles on two cells, each of value 2 or 4, with two ids
IsNewGame(ts) ==
  /\ Len(ts) = 2
  /\ <<ts[1].row, ts[1].col>> # <<ts[2].row, ts[2].col>>
  /\ \A i \in 1 .. 2 : ts[i].value \in {2, 4} /\ ts[i].row \in Cells /\ ts[i].col \in Cells
  /\ ts[1].id # ts[2].id

\* C15: every outcome of initializeGame is a board of two tiles on two distinct
\* cells, of value 2 or 4, with distinct ids; a reset publishes such a board with
\* score 0 and isGameOver false, and keeps bestScore, whatever the state before
C15_NewGame ==
  /\ \A game \in InitialGames(nextTileId) : IsNewGame(game.tiles)
  /\ call.op = "handleReset" =>
       /\ IsNewGame(tiles)
       /\ score = 0
       /\ ~isGameOver
       /\ bestScore = call.bestScore

\* C15 witness: a reset of a game that was over, with a score and a best score
\* above 0
C15_Witness ==
  /\ call.op = "handleReset"
  /\ call.isGameOver
  /\ call.score > 0
  /\ call.bestScore > 0
  /\ bestScore = call.bestScore
  /\ Len(tiles) = 2

C17_Scores ==
  /\ [](bestScore >= score)
  /\ [][/\ bestScore' >= bestScore
        /\ call'.op # "handleReset" => score' >= score
        /\ (call'.op = "handleMove" /\ call'.accepted) =>
             score' = score + call'.result.scoreIncrease]_vars

\* C17 witness: a reset after a move that scored: the score is 0 again and the
\* best score is the score of the game before
C17_Witness ==
  /\ call.op = "handleReset"
  /\ call.score > 0
  /\ score = 0
  /\ bestScore = call.score

\* C18: a page load restores the score and the terminal flag that were saved, and
\* tiles whose grid is the grid of the tiles that were on the board
C18_RoundTrip ==
  call.op = "reload" =>
    /\ score = call.score
    /\ isGameOver = call.isGameOver
    /\ tilesToGrid(tiles, GRID_SIZE) = call.saved

(***************************************************************************)
(* Properties of the conversions (SpecCore).                               *)
(***************************************************************************)
\* the indexes of the tiles of ts on the cell (r, c)
TilesOn(ts, r, c) == {i \in 1 .. Len(ts) : ts[i].row = r /\ ts[i].col = c}

\* C19: gridToTiles returns exactly one tile for each nonzero cell of the grid, with
\* the value and the position of the cell, and no tile for an empty cell; the ids
\* are pairwise distinct; tilesToGrid of the result is the grid again; and
\* tilesToGrid of a valid tile list has the value of each tile on its cell and 0
\* on every other cell
C19_Conversions ==
  /\ call.op = "gridToTiles" =>
       LET g == call.input
           ts == call.result
       IN /\ \A r \in Cells, c \in Cells :
               IF g[r][c] # 0
               THEN /\ Cardinality(TilesOn(ts, r, c)) = 1
                    /\ \A i \in TilesOn(ts, r, c) : ts[i].value = g[r][c]
               ELSE TilesOn(ts, r, c) = {}
          /\ \A i \in 1 .. Len(ts) : ts[i].row \in Cells /\ ts[i].col \in Cells
          /\ Cardinality(Ids(ts)) = Len(ts)
          /\ call.back = g
  /\ call.op = "tilesToGrid" =>
       LET ts == call.input
           g == call.result
       IN /\ DOMAIN g = Cells
          /\ \A r \in Cells :
               /\ DOMAIN g[r] = Cells
               /\ \A c \in Cells :
                    IF TilesOn(ts, r, c) = {} THEN g[r][c] = 0
                    ELSE \A i \in TilesOn(ts, r, c) : g[r][c] = ts[i].value

\* C19 witness: gridToTiles converted a grid with empty cells and several tiles, of
\* two values
C19_Witness ==
  /\ call.op = "gridToTiles"
  /\ Len(call.result) >= 3
  /\ Len(call.result) < GRID_SIZE * GRID_SIZE
  /\ \E i, j \in 1 .. Len(call.result) : call.result[i].value # call.result[j].value
  /\ call.back = call.input

(***************************************************************************)
(* Properties of the directional moves on malformed input (SpecMalformed). *)
(***************************************************************************)
\* C20: a directional move given a tile list with two tiles on one cell, a
\* coordinate off the board or a value that is not a power of two either fails or
\* returns a board with one tile per cell, every tile on the board and every value
\* a power of two
C20_FailsOrNormalizes ==
  IsMove => (call.result.threw \/ WellFormed(call.result.updatedTiles))

\* C21: in every reachable game state whose isGameOver flag is false, one of the
\* four directions is an effective move (its move function reports moved = true)
C21_NoStuckState ==
  ~isGameOver =>
    \E direction \in Directions :
      /\ ~MoveResult(tiles, direction).threw
      /\ MoveResult(tiles, direction).moved

(***************************************************************************)
(* Relations between the move functions (SpecCore).                        *)
(***************************************************************************)
RECURSIVE SumScores(_, _)
\* the sum of the score increases of the rows k .. GRID_SIZE-1
SumScores(rows, k) ==
  IF k >= GRID_SIZE THEN 0 ELSE rows[k].scoreIncrease + SumScores(rows, k + 1)

\* the row with the values a, b, c, d
RowOf(a, b, c, d) == [x \in Cells |-> CASE x = 0 -> a [] x = 1 -> b [] x = 2 -> c [] OTHER -> d]

\* C22: each row of the grid of moveLeft's updatedTiles is the movedRow of
\* moveRowLeft on the same row of the input grid, and moveLeft's scoreIncrease is
\* the sum of the scoreIncrease of moveRowLeft over the rows; the row [2,0,2,4]
\* becomes [4,4,0,0] with scoreIncrease 4
C22_LeftRefinesRowLeft ==
  call.op = "moveRowLeft" =>
    /\ ~call.left.threw
    /\ \A k \in Cells :
         /\ tilesToGrid(call.left.updatedTiles, GRID_SIZE)[k] = call.rows[k].movedRow
         /\ tilesToGrid(call.input, GRID_SIZE)[k] = RowOf(2, 0, 2, 4) =>
              /\ call.rows[k].movedRow = RowOf(4, 4, 0, 0)
              /\ call.rows[k].scoreIncrease = 4
    /\ call.left.scoreIncrease = SumScores(call.rows, 0)

\* C22 witness: the board has the row [2,0,2,4], which both routines turn into
\* [4,4,0,0] with a score of 4
C22_Witness ==
  /\ call.op = "moveRowLeft"
  /\ \E k \in Cells :
       /\ tilesToGrid(call.input, GRID_SIZE)[k] = RowOf(2, 0, 2, 4)
       /\ tilesToGrid(call.left.updatedTiles, GRID_SIZE)[k] = RowOf(4, 4, 0, 0)
  /\ call.left.scoreIncrease = 4

\* C23: moveRight is moveLeft on the board with its columns reflected, reflected
\* back; moveUp is moveLeft on the transposed board, transposed back; moveDown is
\* moveUp on the board with its rows reflected, reflected back: the same tiles
\* (ids, values, positions, order), the same scoreIncrease and the same moved flag
C23_Mirrors ==
  call.op = "mirrors" =>
    /\ call.right = [call.leftOfReflected EXCEPT !.updatedTiles = ReflectCols(@)]
    /\ call.up = [call.leftOfTransposed EXCEPT !.updatedTiles = TransposeTiles(@)]
    /\ call.down = [call.upOfReflected EXCEPT !.updatedTiles = ReflectRows(@)]

\* C23 witness: moveRight and moveDown merged tiles, and all four directions give
\* different boards
C23_Witness ==
  /\ call.op = "mirrors"
  /\ call.right.scoreIncrease > 0
  /\ call.down.scoreIncrease > 0
  /\ Cardinality({call.left.updatedTiles, call.right.updatedTiles,
                  call.up.updatedTiles, call.down.updatedTiles}) = 4

\* the coordinate that names the lines of a direction
LineAxis(direction) == IF direction \in {"left", "right"} THEN "row" ELSE "col"

\* C24: a move leaves the coordinate across its axis of every tile as it was (the
\* row for left and right, the column for up and down), and the tiles of each
\* line after the move are what the move makes of the tiles of that line alone;
\* a line without tiles stays without tiles
C24_Frame ==
  IsMove =>
    LET in == call.input
        out == call.result.updatedTiles
        d == call.direction
    IN /\ \A i \in 1 .. Len(out) : LineNo(out[i], d) = LineNo(TileOf(in, out[i].id), d)
       /\ \A k \in Cells :
            /\ Filter(out, LineAxis(d), k)
                 = MoveResult(Filter(in, LineAxis(d), k), d).updatedTiles
            /\ Filter(in, LineAxis(d), k) = <<>> => Filter(out, LineAxis(d), k) = <<>>

\* C24 witness: a move that changed the board, with a merge, on a board with tiles
\* on at least two lines and with an empty line
C24_Witness ==
  /\ IsMove
  /\ call.result.moved
  /\ call.result.scoreIncrease > 0
  /\ \E k \in Cells : Filter(call.input, LineAxis(call.direction), k) = <<>>
  /\ Cardinality({LineNo(call.input[i], call.direction) : i \in 1 .. Len(call.input)}) >= 2

C26_TileCount ==
  /\ IsMove =>
       /\ Len(call.result.updatedTiles)
            = Len(call.input) - Cardinality(Doubled(call.input, call.result.updatedTiles))
       /\ Ids(call.result.updatedTiles) \subseteq Ids(call.input)
  /\ call.op = "leftRight" =>
       /\ Len(call.left.updatedTiles) <= Len(call.input)
       /\ Len(call.right.updatedTiles) <= Len(call.left.updatedTiles)
       /\ Len(call.right.updatedTiles)
            = Len(call.input) - Cardinality(Doubled(call.input, call.left.updatedTiles))
                - Cardinality(Doubled(call.left.updatedTiles, call.right.updatedTiles))

\* C26 witness: moveLeft merged tiles and moveRight merged tiles of its result
C26_Witness ==
  /\ call.op = "leftRight"
  /\ Len(call.left.updatedTiles) < Len(call.input)
  /\ Len(call.right.updatedTiles) < Len(call.left.updatedTiles)

\* C27: a move of a board with one tile per cell and every tile on the board that
\* reports moved = true returns tiles that leave a cell empty, and addRandomTile
\* called on these tiles returns a new tile, never the result for a full board
C27_SpawnSucceeds ==
  /\ (IsMove /\ WellFormed(call.input) /\ ~call.result.threw /\ call.result.moved) =>
       EmptyCellSet(call.result.updatedTiles) # {}
  /\ (call.op = "moveSpawn" /\ WellFormed(call.input)) =>
       /\ EmptyCellSet(call.result.updatedTiles) # {}
       /\ call.addResult # Null
       /\ call.addResult.tilesWithNew = Append(call.result.updatedTiles, call.addResult.newTile)
       /\ <<call.addResult.newTile.row, call.addResult.newTile.col>>
            \in EmptyCellSet(call.result.updatedTiles)

\* C27 witness: a full board was moved, the move merged one pair of tiles, and the
\* spawn filled the one cell the merge left empty
C27_Witness ==
  /\ call.op = "moveSpawn"
  /\ Len(call.input) = GRID_SIZE * GRID_SIZE
  /\ WellFormed(call.input)
  /\ Len(call.result.updatedTiles) = GRID_SIZE * GRID_SIZE - 1
  /\ call.addResult # Null
  /\ WellFormed(call.addResult.tilesWithNew)
  /\ Len(call.addResult.tilesWithNew) = GRID_SIZE * GRID_SIZE

(***************************************************************************)
(* Properties of the game loop in a finished game (SpecLoop).              *)
(***************************************************************************)
\* C28: once isGameOver is true, a direction request returns at the guard and
\* leaves the game state, the stored state and the id counter as they were, and
\* the only step after which isGameOver is false again is a reset
C28_GameOverAbsorbing ==
  [][isGameOver =>
       /\ call'.op = "handleMove" =>
            /\ call'.guarded
            /\ ~call'.accepted
            /\ call'.newTile = <<>>
            /\ gameState' = gameState
            /\ storage' = storage
            /\ nextTileId' = nextTileId
       /\ ~isGameOver' => call'.op = "handleReset"]_vars

\* C28 witness: a move ended the game and the direction request that followed was
\* refused
C28_Witness ==
  /\ call.op = "handleMove"
  /\ call.guarded
  /\ isGameOver
  /\ budget.moves >= 1
  /\ call.before = gameState

(***************************************************************************)
(* The sum of the tile values in the game loop (SpecEarly).                *)
(***************************************************************************)
\* C29: a directional move leaves the sum of the tile values unchanged, and each
\* accepted step of the game loop (move plus spawn) spawns a tile of value 2 or 4
\* and increases the sum of the tile values by exactly the value of that tile
C29_SumGrows ==
  /\ IsMove => SumValues(call.result.updatedTiles) = SumValues(call.input)
  /\ (call.op = "handleMove" /\ call.accepted) =>
       /\ call.newTile # <<>>
       /\ call.newTile[1].value \in RandomValues
       /\ SumValues(tiles) = SumValues(call.before.tiles) + call.newTile[1].value

====
